---- MODULE Spec2Model ----
(***************************************************************************)
(* Commission ledger / COD-dues settlement engine of the parking backend   *)
(* (payments/models.py, payments/services.py, payments/views.py).          *)
(*                                                                         *)
(* Units.  A DecimalField(.., decimal_places=2) column is an integer       *)
(* number of paise (1/100 rupee).  A percentage column (decimal_places=2)  *)
(* is an integer number of basis points (1/100 percent).  A Python Decimal *)
(* held in memory (the result of G * pct / 100, which is exact at Decimal  *)
(* precision 28) is an integer number of 1/Scale paise; such values are    *)
(* named with the suffix _m below.  Writing an in-memory Decimal to a      *)
(* column rounds it to 2 places (Quantize).                                *)
(***************************************************************************)
EXTENDS Integers, Sequences, FiniteSets, TLC

VARIABLES
    db,        \* the database: settings, accounts, transactions, dues, payments, refunds
    bookings,  \* bookings.Booking rows the ledger consumes: id -> [owner, total_price, status]
    today,     \* timezone.now().date(), in days
    last,      \* the last request handled: what it was and how it ended
    calc,      \* commission calculator harness: input and result of calculate_commission
    procs,     \* concurrent request handlers: position and local (in-memory) objects
    base       \* the database when the concurrent handlers started

vars == <<db, bookings, today, last, calc, procs, base>>

\* ------------------------------------------------------------------ bounds
MaxBookings == 2
MaxDay == 2
MaxSettlements == 1
MaxSettingsRows == 3
MaxDues == 3
MaxCaptures == 1
MaxConcDues == 2
MaxPayouts == 2
MaxRefundDay == 3
MaxManualSettlements == 2

\* ------------------------------------------------------------------ units
Scale == 10000

Max(a, b) == IF a >= b THEN a ELSE b
Min(a, b) == IF a <= b THEN a ELSE b

\* Saving to numeric(15,2) rounds an exact value to 2 places (a tie, which no
\* input below produces, away from zero).
Quantize(x_m) ==
    IF x_m >= 0 THEN (x_m + Scale \div 2) \div Scale
                ELSE 0 - ((0 - x_m + Scale \div 2) \div Scale)

\* A column value (paise) as an in-memory Decimal.
Dec(p) == p * Scale

\* x >= t for an in-memory Decimal x and a column value t (t * Scale may overflow).
DecGE(x_m, t) == (x_m \div Scale) >= t

\* ------------------------------------------------------------------ CommissionSettings
Default_commission_percentage == 1000
Default_minimum_commission == 5000
Default_payment_processing_fee == 250
Default_due_days_threshold == 30
Default_block_dues_amount == 1000000
Default_refund_days == 7
Default_refund_charges_percentage == 200

DefaultSettings ==
    [ commission_percentage     |-> Default_commission_percentage,
      minimum_commission        |-> Default_minimum_commission,
      payment_processing_fee    |-> Default_payment_processing_fee,
      due_days_threshold        |-> Default_due_days_threshold,
      block_dues_amount         |-> Default_block_dues_amount,
      auto_settle_enabled       |-> TRUE,
      refund_days               |-> Default_refund_days,
      refund_charges_percentage |-> Default_refund_charges_percentage ]

\* ------------------------------------------------------------------ calculate_commission
calculate_commission_NoFloor(booking_amount, settings) ==
    LET commission     == Max(booking_amount * settings.commission_percentage,
                              Dec(settings.minimum_commission))
        processing_fee == booking_amount * settings.payment_processing_fee
        net_amount     == Dec(booking_amount) - commission - processing_fee
    IN  [ booking_amount        |-> booking_amount,
          commission_percentage |-> settings.commission_percentage,
          commission_amount     |-> commission,
          processing_fee        |-> processing_fee,
          net_amount            |-> net_amount ]

\* CommissionTransaction.calculate_commission: the in-memory fields it sets
\* (booking_amount in paise, the percentage in basis points, the rest _m).
calculate_commission(booking_amount, settings) ==
    LET commission     == Max(booking_amount * settings.commission_percentage,
                              Dec(settings.minimum_commission))
        processing_fee == booking_amount * settings.payment_processing_fee
        net_amount     == Dec(booking_amount) - commission - processing_fee
    IN  [ booking_amount        |-> booking_amount,
          commission_percentage |-> settings.commission_percentage,
          commission_amount     |-> commission,
          processing_fee        |-> processing_fee,
          net_amount            |-> Max(net_amount, 0) ]

\* ------------------------------------------------------------------ rows
\* A null foreign key or a null timestamp (null=True columns); ids and days start at 1.
NULL == 0

\* OwnerCommissionAccount as created by get_or_create (the column defaults).
NewAccount ==
    [ total_earned              |-> 0,
      total_commission_deducted |-> 0,
      current_balance           |-> 0,
      pending_dues              |-> 0,
      settled_dues              |-> 0,
      account_status            |-> "active",
      is_blocked                |-> FALSE,
      last_payout_date          |-> NULL,
      last_payout_amount        |-> NULL ]

\* The amount columns of an account row as the in-memory Decimals of a loaded instance.
LoadAccount(row) ==
    [ row EXCEPT !.total_earned              = Dec(@),
                 !.total_commission_deducted = Dec(@),
                 !.current_balance           = Dec(@),
                 !.pending_dues              = Dec(@),
                 !.settled_dues              = Dec(@) ]

\* account.save(): every column is written, the Decimals rounded to 2 places.
SaveAccount(account) ==
    [ account EXCEPT !.total_earned              = Quantize(@),
                     !.total_commission_deducted = Quantize(@),
                     !.current_balance           = Quantize(@),
                     !.pending_dues              = Quantize(@),
                     !.settled_dues              = Quantize(@) ]

NoKey == [kind |-> "none", id |-> 0, ts |-> 0]

\* ------------------------------------------------------------------ CommissionService
\* CommissionService.get_settings: the database after it; the record it returns
\* is first_settings of that database.
get_settings(d) ==
    IF d.settings = <<>> THEN [d EXCEPT !.settings = <<DefaultSettings>>] ELSE d

\* CommissionSettings.objects.first()
first_settings(d) == Head(d.settings)

\* CommissionService.get_or_create_account: the database after it.
get_or_create_account(d, owner) ==
    IF owner \in DOMAIN d.accounts THEN d
    ELSE [d EXCEPT !.accounts = (owner :> NewAccount) @@ d.accounts]

\* OwnerCommissionAccount.check_and_update_block_status on a loaded instance.
check_and_update_block_status(account, d) ==
    IF d.settings = <<>> THEN account
    ELSE IF DecGE(account.pending_dues, first_settings(d).block_dues_amount)
              /\ ~account.is_blocked
         THEN [account EXCEPT !.is_blocked = TRUE, !.account_status = "blocked"]
         ELSE account

\* OwnerCommissionAccount.unblock on a loaded instance.
unblock(account) ==
    [account EXCEPT !.is_blocked = FALSE, !.account_status = "active"]

\* The unique constraints a CommissionTransaction insert is checked against:
\* payment is a OneToOneField, idempotency_key is unique (NULLs never collide).
IntegrityError_Never(transactions, payment, key) == FALSE

IntegrityError(transactions, payment, key) ==
    \E i \in DOMAIN transactions :
        \/ payment # NULL /\ transactions[i].payment = payment
        \/ key.kind # "none" /\ transactions[i].idempotency_key = key

\* The ids of owner's unsettled dues.
UnsettledDues(d, owner) ==
    { i \in DOMAIN d.dues : d.dues[i].owner = owner /\ ~d.dues[i].is_settled }

\* CommissionDue.objects.filter(owner=owner, is_settled=False).order_by('due_date'):
\* every order of the ids that is ascending in due_date (rows of one due_date come
\* in an order the database chooses).
DueOrders(d, owner) ==
    LET ids == UnsettledDues(d, owner)
        n   == Cardinality(ids)
    IN  { s \in [1..n -> ids] :
            /\ \A i, j \in 1..n : i # j => s[i] # s[j]
            /\ \A i, j \in 1..n : i < j => d.dues[s[i]].due_date <= d.dues[s[j]].due_date }

\* The auto-settle loop of process_razorpay_payment (lines 187-198): the ids of the
\* dues it marks settled, walking `order` from position i with amount_available left.
RECURSIVE SettleLoop(_, _, _, _)
SettleLoop(d, order, i, amount_available) ==
    IF i > Len(order) THEN {}
    ELSE IF amount_available >= Dec(d.dues[order[i]].due_amount)
         THEN {order[i]} \cup
              SettleLoop(d, order, i + 1, amount_available - Dec(d.dues[order[i]].due_amount))
         ELSE {}

RECURSIVE SumDue(_, _)
SumDue(d, ids) ==
    IF ids = {} THEN 0
    ELSE LET i == CHOOSE x \in ids : TRUE
         IN  d.dues[i].due_amount + SumDue(d, ids \ {i})

\* The dues a capture settles, given the order the query returned them in.
AutoSettled(d, settings, order, net_amount) ==
    IF settings.auto_settle_enabled THEN SettleLoop(d, order, 1, net_amount) ELSE {}

\* due.save() of lines 189-192 for every due the loop settled.
MarkSettled_NoVia(dues, ids, trans_id, now) ==
    [ i \in DOMAIN dues |->
        IF i \in ids THEN [dues[i] EXCEPT !.is_settled = TRUE] ELSE dues[i] ]

MarkSettled(dues, ids, trans_id, now) ==
    [ i \in DOMAIN dues |->
        IF i \in ids
        THEN [dues[i] EXCEPT !.is_settled = TRUE,
                             !.settled_via_transaction = trans_id,
                             !.actual_payment_date = now]
        ELSE dues[i] ]

\* Lines 205-207 of process_razorpay_payment: the account is unblocked when it
\* is blocked and its pending dues are below the block threshold.
UnblockIfDuesBelow_Always(account, settings) ==
    IF account.is_blocked THEN unblock(account) ELSE account

UnblockIfDuesBelow(account, settings) ==
    IF account.is_blocked /\ ~DecGE(account.pending_dues, settings.block_dues_amount)
    THEN unblock(account)
    ELSE account

\* A CommissionTransaction row with the fields calculate_commission set, as stored.
TransactionRow(owner, booking_id, type, calc_m, status, key, settled_at) ==
    [ owner                 |-> owner,
      booking               |-> booking_id,
      payment               |-> booking_id,
      transaction_type      |-> type,
      booking_amount        |-> calc_m.booking_amount,
      commission_percentage |-> calc_m.commission_percentage,
      commission_amount     |-> Quantize(calc_m.commission_amount),
      processing_fee        |-> Quantize(calc_m.processing_fee),
      net_amount            |-> Quantize(calc_m.net_amount),
      status                |-> status,
      idempotency_key       |-> key,
      settled_at            |-> settled_at ]

RazorpayKey(razorpay_payment_id) == [kind |-> "rzp", id |-> razorpay_payment_id, ts |-> 0]

\* Lines 163-217 of process_razorpay_payment: what the handler writes to the
\* database d, given the account instance it loaded (line 161) and the
\* database `seen` its dues query read (line 180).  In a sequential call
\* `seen` is d and `account` is d's row.
razorpay_writes(d, account, seen, booking_id, booking, razorpay_payment_id, order, now) ==
    LET settings == first_settings(d)
        owner    == booking.owner
        trans_id == Len(d.transactions) + 1
        calc_m   == calculate_commission(booking.total_price, settings)
        trans    == TransactionRow(owner, booking_id, "razorpay_payment", calc_m, "settled",
                                   RazorpayKey(razorpay_payment_id), now)
        settled  == AutoSettled(seen, settings, order, calc_m.net_amount)
        paid     == SumDue(seen, settled)
        account1 == [account EXCEPT
                        !.pending_dues              = @ - Dec(paid),
                        !.settled_dues              = @ + Dec(paid),
                        !.total_earned              = @ + Dec(booking.total_price),
                        !.total_commission_deducted = @ + calc_m.commission_amount,
                        !.current_balance           = @ + calc_m.net_amount]
        account2 == UnblockIfDuesBelow(account1, settings)
    IN  [d EXCEPT
            !.transactions = Append(@, trans),
            !.dues = MarkSettled(@, settled, trans_id, now),
            !.accounts[owner] = SaveAccount(account2),
            !.payments[booking_id] =
                [@ EXCEPT !.status = "completed",
                          !.razorpay_payment_id = razorpay_payment_id,
                          !.has_commission_applied = TRUE,
                          !.commission_settled = TRUE,
                          !.settlement_date = now]]

\* CommissionService.process_razorpay_payment (@transaction.atomic): [ok, db, trans].
\* `order` is the order the dues query returns; `now` is timezone.now().  On an
\* exception the whole call is rolled back.
process_razorpay_payment(d, booking_id, booking, razorpay_payment_id, order, now) ==
    LET d1 == get_settings(d)
        d2 == get_or_create_account(d1, booking.owner)
    IN  IF IntegrityError(d2.transactions, booking_id, RazorpayKey(razorpay_payment_id))
        THEN [ok |-> FALSE, db |-> d, trans |-> NULL]
        ELSE [ok    |-> TRUE,
              trans |-> Len(d2.transactions) + 1,
              db    |-> razorpay_writes(d2, LoadAccount(d2.accounts[booking.owner]), d2,
                                        booking_id, booking, razorpay_payment_id, order, now)]

\* The statements of process_razorpay_payment that write to the database, in
\* order: an exception raised by one of them comes after the writes before it.
RaisingSteps == <<"trans.save", "due.save", "account.save", "payment.save">>

\* The row CommissionTransaction.objects.create stores at lines 163-170: the
\* amounts are the columns' defaults and the status is 'pending'.
CreatedTransaction(owner, booking_id, key) ==
    TransactionRow(owner, booking_id, "razorpay_payment",
                   [ booking_amount |-> 0, commission_percentage |-> 0,
                     commission_amount |-> 0, processing_fee |-> 0, net_amount |-> 0 ],
                   "pending", key, NULL)

\* The database inside the transaction of process_razorpay_payment at the
\* moment the statement `step` raises.
razorpay_writes_before(d, booking_id, booking, razorpay_payment_id, order, now, step) ==
    LET owner == booking.owner
        full  == razorpay_writes(d, LoadAccount(d.accounts[owner]), d, booking_id, booking,
                                 razorpay_payment_id, order, now)
        created == [d EXCEPT !.transactions =
                       Append(@, CreatedTransaction(owner, booking_id,
                                                    RazorpayKey(razorpay_payment_id)))]
    IN  CASE step = "trans.save"   -> created
          [] step = "due.save"     -> [d EXCEPT !.transactions = full.transactions]
          [] step = "account.save" -> [d EXCEPT !.transactions = full.transactions,
                                                !.dues = full.dues]
          [] step = "payment.save" -> [d EXCEPT !.transactions = full.transactions,
                                                !.dues = full.dues,
                                                !.accounts = full.accounts]

\* A variant of transaction.atomic that commits what was written before the
\* exception.
atomic_NoRollback(before, written) == written

\* @transaction.atomic (line 153) when the decorated function raises: the
\* database is the one before the call.
atomic(before, written) == before

\* process_razorpay_payment when the statement `step` raises after the
\* transaction was created (the except clause at lines 222-224 re-raises).
process_razorpay_payment_raising(d, booking_id, booking, razorpay_payment_id, order, now, step) ==
    LET d1 == get_settings(d)
        d2 == get_or_create_account(d1, booking.owner)
    IN  IF IntegrityError(d2.transactions, booking_id, RazorpayKey(razorpay_payment_id))
        THEN [ok |-> FALSE, db |-> d, trans |-> NULL]
        ELSE [ok    |-> FALSE,
              trans |-> NULL,
              db    |-> atomic(d, razorpay_writes_before(d2, booking_id, booking,
                                                         razorpay_payment_id, order, now, step))]

\* Lines 268-270 of process_cod_payment.
BlockCheckAfterCod(account, d) ==
    IF ~account.is_blocked THEN check_and_update_block_status(account, d) ELSE account

\* f"cod_{booking.id}_{timezone.now().timestamp()}": the timestamp differs from
\* call to call; the number of the row stands for it.
\* A variant that takes the due date as the expected payment date.
expected_payment_date_NoThreshold(now, settings) == now

\* Line 252 of process_cod_payment: now + timedelta(days=due_days_threshold).
expected_payment_date(now, settings) == now + settings.due_days_threshold

CodKey(booking_id, stamp) == [kind |-> "cod", id |-> booking_id, ts |-> stamp]

\* Lines 237-279 of process_cod_payment: what the handler writes to d, given the
\* account instance it loaded (line 234).
cod_writes(d, account, booking_id, booking, now) ==
    LET settings == first_settings(d)
        owner    == booking.owner
        trans_id == Len(d.transactions) + 1
        calc_m   == calculate_commission(booking.total_price, settings)
        trans    == TransactionRow(owner, booking_id, "cod_collection", calc_m, "pending",
                                   CodKey(booking_id, trans_id), NULL)
        due      == [ owner                   |-> owner,
                      booking                 |-> booking_id,
                      due_amount              |-> Quantize(calc_m.net_amount),
                      commission_amount       |-> Quantize(calc_m.commission_amount),
                      is_settled              |-> FALSE,
                      settled_via_transaction |-> NULL,
                      due_date                |-> now,
                      expected_payment_date   |-> expected_payment_date(now, settings),
                      actual_payment_date     |-> NULL ]
        account1 == [account EXCEPT
                        !.total_earned              = @ + Dec(booking.total_price),
                        !.total_commission_deducted = @ + calc_m.commission_amount,
                        !.pending_dues              = @ + calc_m.net_amount]
        account2 == BlockCheckAfterCod(account1, d)
    IN  [d EXCEPT
            !.transactions = Append(@, trans),
            !.dues = Append(@, due),
            !.accounts[owner] = SaveAccount(account2),
            !.payments[booking_id] =
                [@ EXCEPT !.status = "pending",
                          !.has_commission_applied = TRUE,
                          !.cod_due_amount = Quantize(calc_m.net_amount)]]

\* CommissionService.process_cod_payment (@transaction.atomic): [ok, db, trans].
process_cod_payment(d, booking_id, booking, now) ==
    LET d1 == get_settings(d)
        d2 == get_or_create_account(d1, booking.owner)
    IN  IF IntegrityError(d2.transactions, booking_id,
                          CodKey(booking_id, Len(d2.transactions) + 1))
        THEN [ok |-> FALSE, db |-> d, trans |-> NULL]
        ELSE [ok    |-> TRUE,
              trans |-> Len(d2.transactions) + 1,
              db    |-> cod_writes(d2, LoadAccount(d2.accounts[booking.owner]),
                                   booking_id, booking, now)]

\* Lines 323-324 of settle_cod_manually; get_settings() is reached (and may
\* create the settings row) only when the account is blocked.
BlockCheckAfterSettle(account, d) ==
    LET d1 == IF account.is_blocked THEN get_settings(d) ELSE d
    IN  [ db      |-> d1,
          account |-> IF \/ ~account.is_blocked
                         \/ ~DecGE(account.pending_dues, first_settings(d1).block_dues_amount)
                      THEN check_and_update_block_status(account, d1)
                      ELSE account ]

\* A variant of objects.create that writes over the newest row instead of
\* inserting one.
create_transaction_Overwrite(transactions, trans) ==
    IF transactions = <<>> THEN <<trans>>
    ELSE [transactions EXCEPT ![Len(transactions)] = trans]

\* CommissionTransaction.objects.create (line 298): a new row is inserted.
create_transaction(transactions, trans) == Append(transactions, trans)

\* A variant of the account update that leaves settled_dues alone.
settle_account_NoSettled(account, amount) ==
    [account EXCEPT !.pending_dues    = @ - Dec(amount),
                    !.current_balance = @ + Dec(amount)]

\* Lines 319-321 of settle_cod_manually, amount being min(collected, due_amount).
settle_account(account, amount) ==
    [account EXCEPT !.pending_dues    = @ - Dec(amount),
                    !.settled_dues    = @ + Dec(amount),
                    !.current_balance = @ + Dec(amount)]

\* A variant of settle_cod_manually without the check of lines 294-295.
due_is_settled_Unchecked(d, due_id) == FALSE

\* Lines 294-295 of settle_cod_manually: `if due.is_settled: raise`.
due_is_settled(d, due_id) == d.dues[due_id].is_settled

\* CommissionService.settle_cod_manually (no transaction.atomic): [ok, db, trans].
settle_cod_manually(d, due_id, collected_amount, now) ==
    IF due_id \notin DOMAIN d.dues \/ due_is_settled(d, due_id)
    THEN [ok |-> FALSE, db |-> d, trans |-> NULL]
    ELSE
    LET due      == d.dues[due_id]
        amount   == Min(collected_amount, due.due_amount)
        trans_id == Len(d.transactions) + 1
        trans    == [ owner                 |-> due.owner,
                      booking               |-> due.booking,
                      payment               |-> NULL,
                      transaction_type      |-> "due_settlement",
                      booking_amount        |-> due.due_amount,
                      commission_percentage |-> 0,
                      commission_amount     |-> 0,
                      processing_fee        |-> 0,
                      net_amount            |-> amount,
                      status                |-> "settled",
                      idempotency_key       |-> NoKey,
                      settled_at            |-> now ]
        due1     == IF collected_amount >= due.due_amount
                    THEN [due EXCEPT !.is_settled = TRUE,
                                     !.actual_payment_date = now,
                                     !.settled_via_transaction = trans_id]
                    ELSE due
        account  == LoadAccount(d.accounts[due.owner])
        account1 == settle_account(account, amount)
        d1       == [d EXCEPT !.transactions = create_transaction(@, trans),
                              !.dues[due_id] = due1]
        checked  == BlockCheckAfterSettle(account1, d1)
    IN  [ok    |-> TRUE,
         trans |-> trans_id,
         db    |-> [checked.db EXCEPT !.accounts[due.owner] = SaveAccount(checked.account)]]

\* The statements of settle_cod_manually that write after the transaction was
\* created (lines 298-307).
SettleRaisingSteps == <<"due.save", "account.save">>

\* settle_cod_manually when the statement `step` raises: [ok, db].  The function
\* has no transaction.atomic and no caller that opens a transaction, so every
\* write made before the exception is committed.  When the block check newly
\* blocks the account, check_and_update_block_status has saved the instance
\* (models.py line 149) before account.save() at line 326 is reached.
settle_cod_manually_raising(d, due_id, collected_amount, now, step) ==
    IF due_id \notin DOMAIN d.dues \/ due_is_settled(d, due_id)
    THEN [ok |-> FALSE, db |-> d]
    ELSE
    LET owner == d.dues[due_id].owner
        full  == settle_cod_manually(d, due_id, collected_amount, now).db
        saved_by_block_check == full.accounts[owner].is_blocked /\ ~d.accounts[owner].is_blocked
    IN  [ok |-> FALSE,
         db |-> CASE step = "due.save"     -> [d EXCEPT !.transactions = full.transactions]
                  [] step = "account.save" -> IF saved_by_block_check THEN full
                                              ELSE [full EXCEPT !.accounts = d.accounts]]

\* ------------------------------------------------------------------ RefundService
\* A variant in which `refund` is a queryset: exists() answers whether a Refund
\* row of the payment is stored.
payment_refund_exists_Queryset(d, payment_id) ==
    IF \E i \in DOMAIN d.refunds : d.refunds[i].payment = payment_id
    THEN "True"
    ELSE "False"

\* payment.refund.exists() (line 351).  `refund` is the reverse accessor of the
\* OneToOneField Refund.payment: without a Refund row the access raises
\* RelatedObjectDoesNotExist, with one it returns the Refund instance, which has
\* no attribute `exists`.  A queryset answer ("True"/"False") is never produced.
payment_refund_exists(d, payment_id) ==
    IF \E i \in DOMAIN d.refunds : d.refunds[i].payment = payment_id
    THEN "AttributeError"
    ELSE "RelatedObjectDoesNotExist"

\* RefundService._reverse_commission: [db, db_error].  Every exception is
\* swallowed; db_error tells that a database error (the reversal row breaks the
\* one-to-one constraint on CommissionTransaction.payment) aborted the
\* surrounding transaction.
reverse_commission(d, payment_id, refund_amount_m) ==
    LET ids == { i \in DOMAIN d.transactions : d.transactions[i].payment = payment_id }
    IN  IF ids = {} THEN [db |-> d, db_error |-> FALSE]
        ELSE IF IntegrityError(d.transactions, payment_id, NoKey)
        THEN [db |-> d, db_error |-> TRUE]
        ELSE
        LET trans    == d.transactions[CHOOSE i \in ids : TRUE]
            reversed == IF trans.net_amount > 0
                        THEN (trans.commission_amount * refund_amount_m) \div trans.net_amount
                        ELSE 0
            reversal == [ owner                 |-> trans.owner,
                          booking               |-> NULL,
                          payment               |-> payment_id,
                          transaction_type      |-> "reversal",
                          booking_amount        |-> 0,
                          commission_percentage |-> 0,
                          commission_amount     |-> Quantize(0 - reversed),
                          processing_fee        |-> 0,
                          net_amount            |-> Quantize(0 - refund_amount_m),
                          status                |-> "settled",
                          idempotency_key       |-> NoKey,
                          settled_at            |-> NULL ]
            account  == LoadAccount(d.accounts[trans.owner])
            account1 == [account EXCEPT
                            !.current_balance           = @ - refund_amount_m,
                            !.total_commission_deducted = @ - reversed]
        IN  [db_error |-> FALSE,
             db |-> [d EXCEPT !.transactions = Append(@, reversal),
                              !.accounts[trans.owner] = SaveAccount(account1)]]

\* RefundService.initiate_refund (@transaction.atomic): [ok, db, error].  When
\* the gateway call raises, refund.status = 'failed' is set on the instance only
\* (refund.save() at line 397 is not reached) and the Refund row created at
\* line 367 is rolled back with the transaction.
\* refund_amount = NULL stands for "not given"; gateway_ok is the outcome of
\* RazorpayService.create_refund.
initiate_refund(d, payment_id, refund_amount, gateway_ok, now) ==
    LET payment  == d.payments[payment_id]
        d1       == get_settings(d)
        settings == first_settings(d1)
        exists   == payment_refund_exists(d1, payment_id)
        actual_refund  == IF refund_amount # NULL THEN refund_amount ELSE payment.amount
        refund_charges == actual_refund * settings.refund_charges_percentage
        net_refund     == Dec(actual_refund) - refund_charges
        refund   == [ payment           |-> payment_id,
                      refund_amount     |-> actual_refund,
                      refund_charges    |-> Quantize(refund_charges),
                      net_refund_amount |-> Quantize(net_refund),
                      status            |-> "processing" ]
        d2       == [d1 EXCEPT !.refunds = Append(@, refund)]
        rev      == reverse_commission(d2, payment_id, net_refund)
        failed(error, written) == [ok |-> FALSE, db |-> atomic(d, written), error |-> error]
    IN  IF payment.status = "refunded" THEN failed("Payment already refunded", d1)
        ELSE IF exists \notin {"True", "False"} THEN failed(exists, d1)
        ELSE IF exists = "True" THEN failed("Refund already exists for this payment", d1)
        ELSE IF now - payment.created_at > settings.refund_days
        THEN failed("Refund window expired", d1)
        ELSE IF \E i \in DOMAIN d1.refunds : d1.refunds[i].payment = payment_id
        THEN failed("IntegrityError", d1)
        ELSE IF payment.payment_method = "razorpay" /\ ~gateway_ok
        THEN failed("Razorpay refund failed", d2)
        ELSE IF rev.db_error THEN failed("TransactionManagementError", rev.db)
        ELSE [ok    |-> TRUE,
              error |-> "none",
              db    |-> [rev.db EXCEPT !.payments[payment_id].status =
                           IF actual_refund = payment.amount
                           THEN "refunded" ELSE "partially_refunded"]]

\* ------------------------------------------------------------------ PayoutService
\* PayoutRequest.objects.create of lines 465-472.
NewPayout(owner, amount) ==
    [ owner              |-> owner,
      amount             |-> amount,
      status             |-> "pending",
      razorpay_payout_id |-> NULL,
      completed_at       |-> NULL ]

\* A variant of the balance check that lets every amount through.
InsufficientBalance_Never(amount, account) == FALSE

\* Line 461 of request_payout: Decimal(amount) > account.current_balance.
InsufficientBalance(amount, account) == Dec(amount) > account.current_balance

\* PayoutService.request_payout (no transaction.atomic): [ok, db].  The account
\* row get_or_create_account creates is kept when the request is refused.
request_payout(d, owner, amount) ==
    LET d1      == get_or_create_account(d, owner)
        account == LoadAccount(d1.accounts[owner])
    IN  IF account.is_blocked \/ InsufficientBalance(amount, account)
        THEN [ok |-> FALSE, db |-> d1]
        ELSE [ok |-> TRUE,
              db |-> [d1 EXCEPT !.payouts = Append(@, NewPayout(owner, amount))]]

\* PayoutService.process_payout (@transaction.atomic): [ok, db].  gateway_ok:
\* RazorpayService.create_payout returns; otherwise it raises, the handler sets
\* status 'failed', the finally clause saves the payout and the exception
\* leaves the atomic block.
process_payout(d, payout_id, gateway_ok, now) ==
    IF payout_id \notin DOMAIN d.payouts THEN [ok |-> FALSE, db |-> d]
    ELSE
    LET payout     == d.payouts[payout_id]
        account    == LoadAccount(d.accounts[payout.owner])
        processing == [d EXCEPT !.payouts[payout_id].status = "processing"]
        failed     == [processing EXCEPT !.payouts[payout_id].status = "failed"]
        completed  == [processing EXCEPT
                          !.payouts[payout_id].status = "completed",
                          !.payouts[payout_id].razorpay_payout_id = payout_id,
                          !.payouts[payout_id].completed_at = now]
        account1   == [account EXCEPT !.current_balance    = @ - Dec(payout.amount),
                                      !.last_payout_date   = now,
                                      !.last_payout_amount = payout.amount]
    IN  IF payout.status # "pending" \/ Dec(payout.amount) > account.current_balance
        THEN [ok |-> FALSE, db |-> d]
        ELSE IF ~gateway_ok
        THEN [ok |-> FALSE, db |-> atomic(d, failed)]
        ELSE [ok |-> TRUE,
              db |-> [completed EXCEPT !.accounts[payout.owner] = SaveAccount(account1)]]

\* PayoutService.reject_payout: [ok, db].
reject_payout(d, payout_id) ==
    IF payout_id \notin DOMAIN d.payouts \/ d.payouts[payout_id].status # "pending"
    THEN [ok |-> FALSE, db |-> d]
    ELSE [ok |-> TRUE, db |-> [d EXCEPT !.payouts[payout_id].status = "rejected"]]

\* ------------------------------------------------------------------ booking creation
\* bookings/services.py CommissionService.check_owner_block_status: [blocked, db].
check_owner_block_status(d, owner) ==
    IF owner \notin DOMAIN d.accounts THEN [blocked |-> FALSE, db |-> d]
    ELSE LET d1      == get_settings(d)
             account == LoadAccount(d1.accounts[owner])
         IN  IF DecGE(account.pending_dues, first_settings(d1).block_dues_amount)
             THEN [blocked |-> TRUE,
                   db |-> [d1 EXCEPT !.accounts[owner] =
                              SaveAccount(check_and_update_block_status(account, d1))]]
             ELSE [blocked |-> account.is_blocked, db |-> d1]

\* bookings/services.py CommissionService.can_owner_receive_payment: [result, db].
can_owner_receive_payment(d, owner) ==
    LET c == check_owner_block_status(d, owner)
    IN  [result |-> ~c.blocked, db |-> c.db]

\* The attributes of the class the serializer imports at line 34,
\* payments.services.CommissionService.
CommissionServiceAttributes ==
    { "get_settings", "get_or_create_account", "process_razorpay_payment",
      "process_cod_payment", "settle_cod_manually" }

\* Lines 33-39 of BookingCreateSerializer.validate: [check, outcome, db].
\* `check` is what CommissionService.can_owner_receive_payment(owner) gives the
\* serializer: the attribute lookup on the imported class raises AttributeError.
\* With an answer of False the branch would build a Response, a name
\* serializers.py does not import.
validate_owner(d, owner) ==
    IF "can_owner_receive_payment" \notin CommissionServiceAttributes
    THEN [check |-> "AttributeError", outcome |-> "AttributeError", db |-> d]
    ELSE LET c == can_owner_receive_payment(d, owner)
         IN  IF c.result
             THEN [check |-> "can receive payment", outcome |-> "valid", db |-> c.db]
             ELSE [check |-> "cannot receive payment", outcome |-> "NameError", db |-> c.db]

\* ------------------------------------------------------------------ initial state
EmptyDb ==
    [ settings     |-> <<>>,
      accounts     |-> <<>>,
      transactions |-> <<>>,
      dues         |-> <<>>,
      payments     |-> <<>>,
      refunds      |-> <<>>,
      payouts      |-> <<>> ]

NoLast == [op |-> "none", booking |-> 0, ok |-> FALSE, was_blocked |-> FALSE]
NoCalc == [phase |-> "off"]

\* ------------------------------------------------------------------ inputs
Owners == {"o1", "o2"}

\* booking.total_price values (paise).  At 10% commission and no fee their net
\* amounts are 90 and 109.8; no amount below is a rounding tie.
Prices == {100, 122}

\* Settings an admin puts in place of the defaults (update_settings).
LowThreshold ==
    [ commission_percentage     |-> 1000,
      minimum_commission        |-> 0,
      payment_processing_fee    |-> 0,
      due_days_threshold        |-> 30,
      block_dues_amount         |-> 110,
      auto_settle_enabled       |-> TRUE,
      refund_days               |-> 7,
      refund_charges_percentage |-> 0 ]

\* The database of a deployment whose admin has configured the settings.
ConfiguredDb == [EmptyDb EXCEPT !.settings = <<LowThreshold>>]

\* collected_amount values for a manual settlement: below, equal to, above the due.
CollectedAmounts(due) == {due.due_amount \div 2, due.due_amount, due.due_amount + 10}

\* The razorpay payment id the gateway issues for the order of a booking.
RazorpayPaymentId(booking_id) == booking_id

\* ------------------------------------------------------------------ requests
\* What the last request was, the booking (or due) it was for, whether it went
\* through, and whether the owner's account was blocked when it arrived.
Handled(op, booking_id, owner, ok) ==
    [ op |-> op, booking |-> booking_id, ok |-> ok,
      was_blocked |-> owner \in DOMAIN db.accounts /\ db.accounts[owner].is_blocked ]

\* Payment.objects.get_or_create(booking=booking, defaults=...) when it creates.
NewPayment(booking_id, booking, payment_method, now) ==
    [ booking                |-> booking_id,
      amount                 |-> booking.total_price,
      payment_method         |-> payment_method,
      status                 |-> "initiated",
      razorpay_order_id      |-> NULL,
      razorpay_payment_id    |-> NULL,
      has_commission_applied |-> FALSE,
      commission_settled     |-> FALSE,
      settlement_date        |-> NULL,
      cod_due_amount         |-> NULL,
      created_at             |-> now ]

\* Lines 70-85 of initiate_payment: the database with the booking's payment row.
get_or_create_payment(d, booking_id, booking, payment_method, now) ==
    IF booking_id \in DOMAIN d.payments THEN d
    ELSE [d EXCEPT !.payments =
            (booking_id :> NewPayment(booking_id, booking, payment_method, now)) @@ @]

\* The 'cod' branch of initiate_payment (lines 104-112): [ok, db, trans].
initiate_cod(d, booking_id, booking, now) ==
    LET d0 == get_or_create_payment(d, booking_id, booking, "cod", now)
        d1 == [d0 EXCEPT !.payments[booking_id].status = "initiated"]
        r  == process_cod_payment(d1, booking_id, booking, now)
    IN  IF r.ok THEN r ELSE [r EXCEPT !.db = d1]

\* booking.status = 'confirmed' after a handler that went through.
Confirmed(bks, booking_id, ok) ==
    IF ok THEN [bks EXCEPT ![booking_id].status = "confirmed"] ELSE bks

\* A booking reaches the ledger (bookings are created outside the ledger, in id
\* order: the next one once the one before it has a payment row).
CreateBooking(owner, total_price) ==
    /\ Len(bookings) > 0 => Len(bookings) \in DOMAIN db.payments
    /\ bookings' = Append(bookings,
                     [owner |-> owner, total_price |-> total_price,
                      status |-> "pending_payment"])
    /\ last' = NoLast
    /\ UNCHANGED <<db, today, calc, procs, base>>

\* PaymentViewSet.initiate_payment.  gateway_ok: RazorpayService.create_order succeeds.
InitiatePayment(booking_id, payment_method, gateway_ok) ==
    /\ booking_id \in DOMAIN bookings
    /\ bookings[booking_id].status = "pending_payment"
    /\ booking_id \in DOMAIN db.payments => db.payments[booking_id].status = "initiated"
    /\ LET booking == bookings[booking_id]
           d0 == get_or_create_payment(db, booking_id, booking, payment_method, today)
           r  == initiate_cod(db, booking_id, booking, today)
       IN  IF payment_method = "razorpay"
           THEN /\ db' = IF gateway_ok
                         THEN [d0 EXCEPT !.payments[booking_id].razorpay_order_id = booking_id,
                                         !.payments[booking_id].status = "initiated"]
                         ELSE d0
                /\ bookings' = bookings
                /\ last' = Handled("initiate_razorpay", booking_id, booking.owner, gateway_ok)
           ELSE /\ db' = r.db
                /\ bookings' = Confirmed(bookings, booking_id, r.ok)
                /\ last' = Handled("cod", booking_id, booking.owner, r.ok)
    /\ UNCHANGED <<today, calc, procs, base>>

\* PaymentViewSet.verify_payment.  signature_ok: RazorpayService.verify_payment.
VerifyPayment(booking_id, signature_ok) ==
    /\ booking_id \in DOMAIN db.payments
    /\ db.payments[booking_id].razorpay_order_id # NULL
    /\ \E order \in DueOrders(db, bookings[booking_id].owner) :
         LET booking == bookings[booking_id]
             r == process_razorpay_payment(db, booking_id, booking,
                                           RazorpayPaymentId(booking_id), order, today)
         IN  IF ~signature_ok
             THEN /\ db' = [db EXCEPT !.payments[booking_id].status = "failed"]
                  /\ bookings' = bookings
                  /\ last' = Handled("verify_failed", booking_id, booking.owner, FALSE)
             ELSE /\ db' = r.db
                  /\ bookings' = Confirmed(bookings, booking_id, r.ok)
                  /\ last' = Handled("razorpay", booking_id, booking.owner, r.ok)
    /\ UNCHANGED <<today, calc, procs, base>>

\* webhooks.handle_payment_authorized for the order of a booking.
PaymentAuthorized(booking_id) ==
    /\ booking_id \in DOMAIN db.payments
    /\ db.payments[booking_id].razorpay_order_id # NULL
    /\ db.payments[booking_id].razorpay_payment_id = NULL
    /\ db' = [db EXCEPT !.payments[booking_id].status = "completed",
                        !.payments[booking_id].razorpay_payment_id =
                            RazorpayPaymentId(booking_id)]
    /\ last' = Handled("authorized", booking_id, bookings[booking_id].owner, TRUE)
    /\ UNCHANGED <<bookings, today, calc, procs, base>>

\* webhooks.handle_payment_captured: the payment is looked up by its razorpay
\* payment id and processed unless has_commission_applied; errors are swallowed.
PaymentCaptured(booking_id) ==
    /\ booking_id \in DOMAIN db.payments
    /\ db.payments[booking_id].razorpay_payment_id # NULL
    /\ \E order \in DueOrders(db, bookings[booking_id].owner) :
         LET booking == bookings[booking_id]
             r == process_razorpay_payment(db, booking_id, booking,
                                           db.payments[booking_id].razorpay_payment_id,
                                           order, today)
         IN  IF db.payments[booking_id].has_commission_applied
             THEN /\ db' = db
                  /\ last' = Handled("captured_skipped", booking_id, booking.owner, FALSE)
             ELSE /\ db' = r.db
                  /\ last' = Handled("razorpay", booking_id, booking.owner, r.ok)
    /\ UNCHANGED <<bookings, today, calc, procs, base>>

\* PaymentViewSet.verify_payment with a valid signature when a statement of
\* process_razorpay_payment raises: the view answers 500 and saves nothing.
VerifyPaymentRaising(booking_id, step) ==
    /\ booking_id \in DOMAIN db.payments
    /\ db.payments[booking_id].razorpay_order_id # NULL
    /\ ~IntegrityError(db.transactions, booking_id, RazorpayKey(RazorpayPaymentId(booking_id)))
    /\ \E order \in DueOrders(db, bookings[booking_id].owner) :
         LET booking == bookings[booking_id]
             r == process_razorpay_payment_raising(db, booking_id, booking,
                                                   RazorpayPaymentId(booking_id), order,
                                                   today, step)
         IN  /\ db' = r.db
             /\ last' = Handled(step, booking_id, booking.owner, r.ok)
    /\ UNCHANGED <<bookings, today, calc, procs, base>>

\* PaymentViewSet.confirm_cod_payment.
ConfirmCodPayment(booking_id) ==
    /\ booking_id \in DOMAIN db.payments
    /\ LET r == process_cod_payment(db, booking_id, bookings[booking_id], today)
       IN  /\ db' = r.db
           /\ bookings' = Confirmed(bookings, booking_id, r.ok)
           /\ last' = Handled("cod", booking_id, bookings[booking_id].owner, r.ok)
    /\ UNCHANGED <<today, calc, procs, base>>

ManualSettlements(d) ==
    Cardinality({ i \in DOMAIN d.transactions :
                    d.transactions[i].transaction_type = "due_settlement" })

\* CommissionService.settle_cod_manually called for a due.
SettleCodManually(due_id, collected_amount) ==
    /\ due_id \in DOMAIN db.dues
    /\ LET r == settle_cod_manually(db, due_id, collected_amount, today)
       IN  /\ db' = r.db
           /\ last' = Handled("settle", due_id, db.dues[due_id].owner, r.ok)
    /\ UNCHANGED <<bookings, today, calc, procs, base>>

\* CommissionService.settle_cod_manually called for a due when one of its
\* statements raises.
SettleCodManuallyRaising(due_id, collected_amount, step) ==
    /\ due_id \in DOMAIN db.dues
    /\ ~db.dues[due_id].is_settled
    /\ LET r == settle_cod_manually_raising(db, due_id, collected_amount, today, step)
       IN  /\ db' = r.db
           /\ last' = Handled("settle:" \o step, due_id, db.dues[due_id].owner, r.ok)
    /\ UNCHANGED <<bookings, today, calc, procs, base>>

\* RefundViewSet.initiate_refund.  gateway_ok: RazorpayService.create_refund succeeds.
InitiateRefund(booking_id, refund_amount, gateway_ok) ==
    /\ booking_id \in DOMAIN db.payments
    /\ LET r == initiate_refund(db, booking_id, refund_amount, gateway_ok, today)
       IN  /\ db' = r.db
           /\ last' = Handled(IF refund_amount # NULL /\ refund_amount > db.payments[booking_id].amount
                              THEN "refund_over_amount" ELSE "refund",
                              booking_id, bookings[booking_id].owner, r.ok)
    /\ UNCHANGED <<bookings, today, calc, procs, base>>

\* OwnerCommissionAccountViewSet.block_owner.
BlockOwner(owner) ==
    /\ owner \in DOMAIN db.accounts
    /\ db' = [db EXCEPT !.accounts[owner].is_blocked = TRUE,
                        !.accounts[owner].account_status = "blocked"]
    /\ last' = Handled("block", NULL, owner, TRUE)
    /\ UNCHANGED <<bookings, today, calc, procs, base>>

\* OwnerCommissionAccountViewSet.unblock_owner.
UnblockOwner(owner) ==
    /\ owner \in DOMAIN db.accounts
    /\ db' = [db EXCEPT !.accounts[owner] = unblock(@)]
    /\ last' = Handled("unblock", NULL, owner, TRUE)
    /\ UNCHANGED <<bookings, today, calc, procs, base>>

\* PayoutRequestViewSet.request_payout.
RequestPayout(owner, amount) ==
    /\ LET r == request_payout(db, owner, amount)
       IN  /\ db' = r.db
           /\ last' = Handled("request_payout", NULL, owner, r.ok)
    /\ UNCHANGED <<bookings, today, calc, procs, base>>

\* PayoutRequestViewSet.process_payout.  gateway_ok: RazorpayService.create_payout
\* succeeds.
ProcessPayout(payout_id, gateway_ok) ==
    /\ payout_id \in DOMAIN db.payouts
    /\ LET r == process_payout(db, payout_id, gateway_ok, today)
       IN  /\ db' = r.db
           /\ last' = Handled(IF gateway_ok THEN "process_payout" ELSE "process_payout_gateway_error",
                              payout_id, db.payouts[payout_id].owner, r.ok)
    /\ UNCHANGED <<bookings, today, calc, procs, base>>

\* PayoutRequestViewSet.reject_payout.
RejectPayout(payout_id) ==
    /\ payout_id \in DOMAIN db.payouts
    /\ LET r == reject_payout(db, payout_id)
       IN  /\ db' = r.db
           /\ last' = Handled("reject_payout", payout_id, db.payouts[payout_id].owner, r.ok)
    /\ UNCHANGED <<bookings, today, calc, procs, base>>

\* webhooks.handle_payout_processed: the payout is looked up by its
\* razorpay_payout_id; status is the gateway's 'processed' or 'failed'.
PayoutProcessed(payout_id, status) ==
    /\ payout_id \in DOMAIN db.payouts
    /\ db.payouts[payout_id].razorpay_payout_id # NULL
    /\ db' = IF status = "processed"
             THEN [db EXCEPT !.payouts[payout_id].status = "completed",
                             !.payouts[payout_id].completed_at = today]
             ELSE [db EXCEPT !.payouts[payout_id].status = "failed"]
    /\ last' = Handled("payout_" \o status, payout_id, db.payouts[payout_id].owner, TRUE)
    /\ UNCHANGED <<bookings, today, calc, procs, base>>

\* PaymentAdmin change form (has_change_permission is not overridden and status
\* is not read-only): a staff user sets the status of a payment.
AdminChangePayment(booking_id, status) ==
    /\ booking_id \in DOMAIN db.payments
    /\ db' = [db EXCEPT !.payments[booking_id].status = status]
    /\ last' = Handled("admin_payment", booking_id, bookings[booking_id].owner, TRUE)
    /\ UNCHANGED <<bookings, today, calc, procs, base>>

\* A day passes: timezone.now().date() is one more.
AdvanceDay ==
    /\ today' = today + 1
    /\ last' = NoLast
    /\ UNCHANGED <<db, bookings, calc, procs, base>>

\* BookingViewSet.create with BookingCreateSerializer: a booking request for a
\* space of `owner`; total_price is what calculate_price gives.
BookingCreate(owner, total_price) ==
    /\ LET v == validate_owner(db, owner)
       IN  /\ db' = v.db
           /\ bookings' = IF v.outcome = "valid"
                          THEN Append(bookings, [owner |-> owner, total_price |-> total_price,
                                                 status |-> "pending_payment"])
                          ELSE bookings
           /\ last' = Handled("booking_create", NULL, owner, v.outcome = "valid")
    /\ UNCHANGED <<today, calc, procs, base>>

Init ==
    /\ db = ConfiguredDb
    /\ bookings = <<>>
    /\ today = 1
    /\ last = NoLast
    /\ calc = NoCalc
    /\ procs = <<>>
    /\ base = ConfiguredDb

Next ==
    \/ /\ Len(bookings) < MaxBookings
       /\ \E o \in Owners, p \in Prices :
            /\ Len(bookings) = 0 => o = "o1"
            /\ CreateBooking(o, p)
    \/ \E b \in 1..MaxBookings, m \in {"razorpay", "cod"}, g \in BOOLEAN :
          InitiatePayment(b, m, g)
    \/ \E b \in 1..MaxBookings, ok \in BOOLEAN : VerifyPayment(b, ok)
    \/ \E b \in 1..MaxBookings : PaymentAuthorized(b)
    \/ \E b \in 1..MaxBookings : PaymentCaptured(b)
    \/ \E b \in 1..MaxBookings : ConfirmCodPayment(b)
    \/ /\ ManualSettlements(db) < MaxSettlements
       /\ \E i \in DOMAIN db.dues : \E c \in CollectedAmounts(db.dues[i]) :
            SettleCodManually(i, c)
    \/ \E b \in 1..MaxBookings, a \in {NULL, 50}, g \in BOOLEAN : InitiateRefund(b, a, g)
    \/ \E o \in Owners : BlockOwner(o)
    \/ \E o \in Owners : UnblockOwner(o)

Spec == Init /\ [][Next]_vars

\* ------------------------------------------------------------------ settlement of dues
\* A ledger that already holds COD dues of one owner, and captures that settle them.
SettlePrices == {50, 100, 150}
CapturePrices == {50, 100, 260}

\* Settings without commission: a due and a capture's net amount are the price.
NoCommission ==
    [ commission_percentage     |-> 0,
      minimum_commission        |-> 0,
      payment_processing_fee    |-> 0,
      due_days_threshold        |-> 30,
      block_dues_amount         |-> 200,
      auto_settle_enabled       |-> TRUE,
      refund_days               |-> 7,
      refund_charges_percentage |-> 0 ]

SettleSettings == {NoCommission, LowThreshold}

\* COD bookings of an owner, as [total_price, day], accepted in turn
\* (initiate_payment with method 'cod'): the database after the last of them.
RECURSIVE CodLedger(_, _, _)
CodLedger(d, owner, history) ==
    IF history = <<>> THEN d
    ELSE LET n      == Len(history)
             before == CodLedger(d, owner, SubSeq(history, 1, n - 1))
         IN  initiate_cod(before, n, [owner |-> owner, total_price |-> history[n][1]],
                          history[n][2]).db

\* The histories of at most n COD bookings over days 1..MaxDay, in time order.
CodHistories(prices, n) ==
    { h \in UNION { [1..k -> prices \X (1..MaxDay)] : k \in 1..n } :
        \A i, j \in DOMAIN h : i < j => h[i][2] <= h[j][2] }

ConfirmedBookings(owner, history) ==
    [ i \in DOMAIN history |->
        [owner |-> owner, total_price |-> history[i][1], status |-> "confirmed"] ]

InitSettle ==
    /\ \E s \in SettleSettings, h \in CodHistories(SettlePrices, MaxDues) :
          /\ db = CodLedger([EmptyDb EXCEPT !.settings = <<s>>], "o1", h)
          /\ bookings = ConfirmedBookings("o1", h)
    /\ base = db
    /\ today = MaxDay
    /\ last = NoLast
    /\ calc = NoCalc
    /\ procs = <<>>

NextSettle ==
    \/ /\ Len(bookings) < Len(base.dues) + MaxCaptures
       /\ \E p \in CapturePrices : CreateBooking("o1", p)
    \/ \E b \in 1..(MaxDues + MaxCaptures), g \in BOOLEAN : InitiatePayment(b, "razorpay", g)
    \/ \E b \in 1..(MaxDues + MaxCaptures), ok \in BOOLEAN : VerifyPayment(b, ok)
    \/ \E b \in 1..(MaxDues + MaxCaptures), i \in DOMAIN RaisingSteps :
         VerifyPaymentRaising(b, RaisingSteps[i])
    \/ BlockOwner("o1")
    \/ UnblockOwner("o1")

SpecSettle == InitSettle /\ [][NextSettle]_vars

\* ------------------------------------------------------------------ payouts
\* One owner earns a balance from a captured booking and requests payouts.
PayoutAmounts == {50, 90, 200}

InitPayout ==
    /\ db = ConfiguredDb
    /\ bookings = <<>>
    /\ base = db
    /\ today = 1
    /\ last = NoLast
    /\ calc = NoCalc
    /\ procs = <<>>

NextPayout ==
    \/ /\ Len(bookings) < MaxCaptures
       /\ \E p \in Prices : CreateBooking("o1", p)
    \/ \E b \in 1..MaxCaptures, g \in BOOLEAN : InitiatePayment(b, "razorpay", g)
    \/ \E b \in 1..MaxCaptures, ok \in BOOLEAN : VerifyPayment(b, ok)
    \/ /\ Len(db.payouts) < MaxPayouts
       /\ \E a \in PayoutAmounts : RequestPayout("o1", a)
    \/ \E i \in 1..MaxPayouts, g \in BOOLEAN : ProcessPayout(i, g)
    \/ \E i \in 1..MaxPayouts : RejectPayout(i)
    \/ \E i \in 1..MaxPayouts, st \in {"processed", "failed"} : PayoutProcessed(i, st)
    \/ BlockOwner("o1")
    \/ UnblockOwner("o1")

SpecPayout == InitPayout /\ [][NextPayout]_vars

\* ------------------------------------------------------------------ refunds
\* One booking is paid, days pass, and refunds are requested.  The settings
\* table is empty (get_settings creates the defaults, refund_days 7) or holds
\* a record with a refund window of one day and refund charges of 2%.
RefundPrices == {100000}

RefundSettings == [LowThreshold EXCEPT !.refund_days = 1, !.refund_charges_percentage = 200]

RefundAmounts == {NULL, 50, 150000}

InitRefund ==
    /\ \E rows \in {<<>>, <<RefundSettings>>} : db = [EmptyDb EXCEPT !.settings = rows]
    /\ bookings = <<>>
    /\ base = db
    /\ today = 1
    /\ last = NoLast
    /\ calc = NoCalc
    /\ procs = <<>>

NextRefund ==
    \/ /\ Len(bookings) < MaxCaptures
       /\ \E p \in RefundPrices : CreateBooking("o1", p)
    \/ \E b \in 1..MaxCaptures, m \in {"razorpay", "cod"}, g \in BOOLEAN : InitiatePayment(b, m, g)
    \/ \E b \in 1..MaxCaptures, ok \in BOOLEAN : VerifyPayment(b, ok)
    \/ \E b \in 1..MaxCaptures, a \in RefundAmounts, g \in BOOLEAN : InitiateRefund(b, a, g)
    \/ \E b \in 1..MaxCaptures : AdminChangePayment(b, "refunded")
    \/ /\ today < MaxRefundDay
       /\ AdvanceDay

SpecRefund == InitRefund /\ [][NextRefund]_vars

\* ------------------------------------------------------------------ booking requests
\* Booking requests through the API next to booking rows made otherwise (the
\* admin site), COD acceptances that raise the owners' dues, block and unblock.
InitBooking ==
    /\ db = ConfiguredDb
    /\ bookings = <<>>
    /\ base = db
    /\ today = 1
    /\ last = NoLast
    /\ calc = NoCalc
    /\ procs = <<>>

NextBooking ==
    \/ /\ Len(bookings) < MaxBookings
       /\ \E o \in Owners, p \in Prices : CreateBooking(o, p)
    \/ \E b \in 1..MaxBookings, g \in BOOLEAN : InitiatePayment(b, "cod", g)
    \/ \E o \in Owners, p \in Prices : BookingCreate(o, p)
    \/ \E o \in Owners : BlockOwner(o)
    \/ \E o \in Owners : UnblockOwner(o)

SpecBooking == InitBooking /\ [][NextBooking]_vars

\* ------------------------------------------------------------------ manual settlements
\* An owner's COD dues are settled by hand, several times and in parts, next to
\* a razorpay capture that auto-settles.
InitManual ==
    /\ \E st \in SettleSettings, h \in CodHistories(SettlePrices, MaxConcDues) :
          /\ db = CodLedger([EmptyDb EXCEPT !.settings = <<st>>], "o1", h)
          /\ bookings = ConfirmedBookings("o1", h)
    /\ base = db
    /\ today = MaxDay
    /\ last = NoLast
    /\ calc = NoCalc
    /\ procs = <<>>

NextManual ==
    \/ /\ ManualSettlements(db) < MaxManualSettlements
       /\ \E i \in DOMAIN db.dues : \E c \in CollectedAmounts(db.dues[i]) : SettleCodManually(i, c)
    \/ /\ ManualSettlements(db) < MaxManualSettlements
       /\ \E i \in DOMAIN db.dues : \E c \in CollectedAmounts(db.dues[i]) :
            \E k \in DOMAIN SettleRaisingSteps : SettleCodManuallyRaising(i, c, SettleRaisingSteps[k])
    \/ /\ Len(bookings) < Len(base.dues) + MaxCaptures
       /\ \E p \in CapturePrices : CreateBooking("o1", p)
    \/ \E b \in 1..(MaxConcDues + MaxCaptures), g \in BOOLEAN : InitiatePayment(b, "razorpay", g)
    \/ \E b \in 1..(MaxConcDues + MaxCaptures) : VerifyPayment(b, TRUE)

SpecManual == InitManual /\ [][NextManual]_vars

\* ------------------------------------------------------------------ concurrent payment events
\* Two handlers, each in its own transaction (READ COMMITTED, no row lock:
\* the services never call select_for_update), process payment events of two
\* bookings of one owner.  A handler loads the account (and reads the dues),
\* then writes what it computed from what it loaded, and commits.
ConcProcs == {"p1", "p2"}

\* The payment row of a booking whose payment was initiated (an order was
\* created for a razorpay payment).
InitiatedPayment(d, booking_id, booking, payment_method, now) ==
    LET d0 == get_or_create_payment(d, booking_id, booking, payment_method, now)
    IN  IF payment_method = "razorpay"
        THEN [d0 EXCEPT !.payments[booking_id].razorpay_order_id = booking_id]
        ELSE d0

InitConc ==
    /\ \E h \in CodHistories(Prices, MaxConcDues), p1 \in Prices, p2 \in Prices,
          m2 \in {"razorpay", "cod"} :
          LET n  == Len(h)
              b1 == [owner |-> "o1", total_price |-> p1, status |-> "pending_payment"]
              b2 == [owner |-> "o1", total_price |-> p2, status |-> "pending_payment"]
              d0 == CodLedger(ConfiguredDb, "o1", h)
              d1 == InitiatedPayment(d0, n + 1, b1, "razorpay", MaxDay)
              d2 == InitiatedPayment(d1, n + 2, b2, m2, MaxDay)
          IN  /\ db = d2
              /\ bookings = ConfirmedBookings("o1", h) \o <<b1, b2>>
              /\ procs = [ p \in ConcProcs |->
                            IF p = "p1"
                            THEN [pc |-> "start", booking |-> n + 1, method |-> "razorpay"]
                            ELSE [pc |-> "start", booking |-> n + 2, method |-> m2] ]
    /\ base = db
    /\ today = MaxDay
    /\ last = NoLast
    /\ calc = NoCalc

\* get_or_create_account (services.py lines 161, 234) and the dues query (line
\* 180): the handler holds the account instance and the dues it read.
ReadAccount(p) ==
    /\ procs[p].pc = "start"
    /\ \E order \in DueOrders(db, bookings[procs[p].booking].owner) :
         procs' = [procs EXCEPT ![p] =
                     [ pc      |-> "loaded",
                       booking |-> procs[p].booking,
                       method  |-> procs[p].method,
                       account |-> LoadAccount(db.accounts[bookings[procs[p].booking].owner]),
                       seen    |-> db,
                       order   |-> order ]]
    /\ UNCHANGED <<db, bookings, today, last, calc, base>>

\* The handler's writes (account.save() at lines 209, 272 writes every column
\* of the instance it loaded) and the commit of its transaction.
Commit(p) ==
    /\ procs[p].pc = "loaded"
    /\ LET b == procs[p].booking
       IN  /\ db' = IF procs[p].method = "razorpay"
                    THEN razorpay_writes(db, procs[p].account, procs[p].seen, b, bookings[b],
                                         RazorpayPaymentId(b), procs[p].order, today)
                    ELSE cod_writes(db, procs[p].account, b, bookings[b], today)
           /\ bookings' = Confirmed(bookings, b, TRUE)
           /\ procs' = [procs EXCEPT ![p] =
                          [pc |-> "done", booking |-> b, method |-> procs[p].method]]
           /\ last' = Handled(procs[p].method, b, bookings[b].owner, TRUE)
    /\ UNCHANGED <<today, calc, base>>

NextConc ==
    \/ \E p \in ConcProcs : ReadAccount(p)
    \/ \E p \in ConcProcs : Commit(p)

SpecConc == InitConc /\ [][NextConc]_vars

\* The databases one payment event can lead to when it is processed alone.
ApplyEvent(d, b, method) ==
    IF method = "razorpay"
    THEN { process_razorpay_payment(d, b, bookings[b], RazorpayPaymentId(b), order, today).db :
             order \in DueOrders(d, bookings[b].owner) }
    ELSE { process_cod_payment(d, b, bookings[b], today).db }

\* The databases the two events lead to from d when one is processed after the other.
Sequential(d, first, second) ==
    UNION { ApplyEvent(d1, procs[second].booking, procs[second].method) :
              d1 \in ApplyEvent(d, procs[first].booking, procs[first].method) }

\* ------------------------------------------------------------------ the settings record
\* Requests that access the settings for the first time (get_settings,
\* current_settings: first(), then create() when there is none), and the
\* settings API of CommissionSettingsViewSet (a ModelViewSet).
SettingsProcs == {"p1", "p2"}
AdminSettings == {DefaultSettings, LowThreshold}

InitSettings ==
    /\ db = EmptyDb
    /\ base = EmptyDb
    /\ bookings = <<>>
    /\ today = 1
    /\ last = NoLast
    /\ calc = NoCalc
    /\ procs = [p \in SettingsProcs |-> [pc |-> "start"]]

\* CommissionSettings.objects.first() of get_settings / current_settings.
ReadFirst(p) ==
    /\ procs[p].pc = "start"
    /\ procs' = [procs EXCEPT ![p].pc = IF db.settings = <<>> THEN "create" ELSE "done"]
    /\ UNCHANGED <<db, bookings, today, last, calc, base>>

\* CommissionSettings.objects.create() of get_settings / current_settings.
CreateFirst(p) ==
    /\ procs[p].pc = "create"
    /\ db' = [db EXCEPT !.settings = Append(@, DefaultSettings)]
    /\ procs' = [procs EXCEPT ![p].pc = "done"]
    /\ UNCHANGED <<bookings, today, last, calc, base>>

\* CommissionSettingsViewSet.create (POST on the collection).
CreateSettings(settings) ==
    /\ Len(db.settings) < MaxSettingsRows
    /\ db' = [db EXCEPT !.settings = Append(@, settings)]
    /\ UNCHANGED <<bookings, today, last, calc, procs, base>>

\* CommissionSettingsViewSet.destroy (DELETE on a record).
DestroySettings(i) ==
    /\ i \in DOMAIN db.settings
    /\ db' = [db EXCEPT !.settings =
                SubSeq(@, 1, i - 1) \o SubSeq(@, i + 1, Len(@))]
    /\ UNCHANGED <<bookings, today, last, calc, procs, base>>

\* CommissionSettingsViewSet.update_settings on a record.
UpdateSettings(i, settings) ==
    /\ i \in DOMAIN db.settings
    /\ db' = [db EXCEPT !.settings[i] = settings]
    /\ UNCHANGED <<bookings, today, last, calc, procs, base>>

NextSettings ==
    \/ \E p \in SettingsProcs : ReadFirst(p)
    \/ \E p \in SettingsProcs : CreateFirst(p)
    \/ \E s \in AdminSettings : CreateSettings(s)
    \/ \E i \in 1..MaxSettingsRows : DestroySettings(i)
    \/ \E i \in 1..MaxSettingsRows, s \in AdminSettings : UpdateSettings(i, s)

SpecSettings == InitSettings /\ [][NextSettings]_vars

\* ------------------------------------------------------------------ calculator harness
CalcAmounts == {0, 1, 95, 100, 114, 122, 5000, 10000, 20000}
CalcPercentages == {0, 250, 1000, 10000}
CalcMinimums == {0, 50, 5000}

CalcSettings ==
    { [DefaultSettings EXCEPT !.commission_percentage = p,
                              !.minimum_commission = m,
                              !.payment_processing_fee = f] :
        p \in CalcPercentages, m \in CalcMinimums, f \in CalcPercentages }

InitCalc ==
    /\ db = EmptyDb
    /\ bookings = <<>>
    /\ today = 1
    /\ last = NoLast
    /\ procs = <<>>
    /\ base = EmptyDb
    /\ \E g \in CalcAmounts, s \in CalcSettings :
          calc = [phase |-> "input", G |-> g, settings |-> s]

Calculate ==
    /\ calc.phase = "input"
    /\ calc' = [phase |-> "done", G |-> calc.G, settings |-> calc.settings,
                trans |-> calculate_commission(calc.G, calc.settings)]
    /\ UNCHANGED <<db, bookings, today, last, procs, base>>

NextCalc == Calculate

SpecCalc == InitCalc /\ [][NextCalc]_vars

\* ------------------------------------------------------------------ properties
Owner(booking_id) == bookings[booking_id].owner

\* The payment of booking b already has its razorpay_payment transaction.
Captured(d, b) ==
    \E i \in DOMAIN d.transactions :
        /\ d.transactions[i].payment = b
        /\ d.transactions[i].transaction_type = "razorpay_payment"

\* C1: for every owner, pending_dues equals the sum of due_amount over the
\* owner's unsettled dues, after any sequence of COD acceptances, captures and
\* manual settlements (with a collected amount below, equal to or above the due).
C1_PendingDuesMatchDues ==
    \A o \in DOMAIN db.accounts :
        db.accounts[o].pending_dues = SumDue(db, UnsettledDues(db, o))

\* C2: a razorpay capture submitted again for a payment that already has its
\* razorpay_payment transaction changes no ledger, due or payment state, so the
\* payment keeps exactly one such transaction; and the capture that went
\* through credited total_earned, total_commission_deducted and
\* current_balance once.
C2_CaptureIdempotent ==
    [][ LET b == last'.booking
            o == Owner(b)
            t == calculate_commission(bookings[b].total_price, first_settings(db))
            before == IF o \in DOMAIN db.accounts THEN db.accounts[o] ELSE NewAccount
            after  == db'.accounts[o]
        IN  /\ (last'.op \in {"razorpay", "captured_skipped"} /\ Captured(db, b))
                  => /\ db' = db
                     /\ bookings' = bookings
                     /\ ~last'.ok
                     /\ Cardinality({ i \in DOMAIN db'.transactions :
                            /\ db'.transactions[i].payment = b
                            /\ db'.transactions[i].transaction_type = "razorpay_payment" }) = 1
            /\ (last'.op = "razorpay" /\ last'.ok)
                  => /\ ~Captured(db, b)
                     /\ after.total_earned = before.total_earned + bookings[b].total_price
                     /\ after.total_commission_deducted =
                            before.total_commission_deducted + Quantize(t.commission_amount)
                     /\ after.current_balance =
                            before.current_balance + Quantize(t.net_amount)
      ]_vars

\* C2 witness: a capture was submitted for a payment that was captured before,
\* and was turned down.
C2_Witness ==
    /\ last.op = "razorpay"
    /\ ~last.ok
    /\ Captured(db, last.booking)
    /\ db.payments[last.booking].has_commission_applied

\* C3: when two payment events of one owner are processed concurrently, the
\* final current_balance, total_earned and pending_dues are those of processing
\* the two events one after the other in some order.
C3_NoLostUpdate ==
    (\A p \in ConcProcs : procs[p].pc = "done") =>
        \E d \in Sequential(base, "p1", "p2") \cup Sequential(base, "p2", "p1") :
            /\ db.accounts["o1"].current_balance = d.accounts["o1"].current_balance
            /\ db.accounts["o1"].total_earned = d.accounts["o1"].total_earned
            /\ db.accounts["o1"].pending_dues = d.accounts["o1"].pending_dues

\* C4: after a COD acceptance completes, an owner whose pending_dues is at
\* least settings.block_dues_amount has is_blocked = true and account_status =
\* 'blocked'.
C4_BlockedAtThreshold ==
    (last.op = "cod" /\ last.ok) =>
        LET account == db.accounts[Owner(last.booking)]
        IN  account.pending_dues >= first_settings(db).block_dues_amount
               => account.is_blocked /\ account.account_status = "blocked"

C6_AutoSettlePrefix ==
    [][ (last'.op = "razorpay" /\ last'.ok /\ first_settings(db).auto_settle_enabled) =>
          LET b       == last'.booking
              o       == Owner(b)
              trans   == db'.transactions[Len(db'.transactions)]
              settled == { i \in UnsettledDues(db, o) : db'.dues[i].is_settled }
          IN  /\ \E order \in DueOrders(db, o) : \E k \in 0..Len(order) :
                    /\ settled = { order[i] : i \in 1..k }
                    /\ SumDue(db, { order[i] : i \in 1..k }) <= trans.net_amount
                    /\ k < Len(order)
                          => SumDue(db, { order[i] : i \in 1..(k + 1) }) > trans.net_amount
              /\ DOMAIN db'.dues = DOMAIN db.dues
              /\ \A i \in DOMAIN db.dues :
                    /\ db'.dues[i].due_amount = db.dues[i].due_amount
                    /\ i \notin settled => db'.dues[i] = db.dues[i]
              /\ o \in DOMAIN db.accounts
                    => db'.accounts[o].pending_dues =
                          db.accounts[o].pending_dues - SumDue(db, settled)
      ]_vars

\* C7: for every gross amount G >= 0 and every settings record,
\* calculate_commission sets commission_amount to the larger of G * pct / 100
\* and minimum_commission, processing_fee to G * fee / 100, and net_amount to
\* G - commission - fee when that is not negative and to 0 otherwise; so
\* net_amount is never negative.
C7_CalculateCommission ==
    calc.phase = "done" =>
        LET t == calc.trans
            s == calc.settings
            G == calc.G
        IN  /\ t.commission_amount >= G * s.commission_percentage
            /\ t.commission_amount >= s.minimum_commission * Scale
            /\ \/ t.commission_amount = G * s.commission_percentage
               \/ t.commission_amount = s.minimum_commission * Scale
            /\ t.processing_fee = G * s.payment_processing_fee
            /\ t.net_amount >= 0
            /\ (t.commission_amount + t.processing_fee <= G * Scale)
                  => t.net_amount = G * Scale - t.commission_amount - t.processing_fee
            /\ (t.commission_amount + t.processing_fee > G * Scale)
                  => t.net_amount = 0

\* C7 witness: a calculation in which commission plus fee exceed the gross amount.
C7_Witness ==
    /\ calc.phase = "done"
    /\ calc.G > 0
    /\ calc.trans.commission_amount + calc.trans.processing_fee > calc.G * Scale
    /\ calc.trans.net_amount = 0

\* C8: a full refund of a captured payment whose commission transaction has
\* gross 100, commission 10 and net 90, with refund_charges_percentage = 0,
\* goes through, lowers total_commission_deducted by 10 and lowers
\* current_balance by 90.
C8_FullRefundReverses ==
    \A b \in DOMAIN db.payments :
        (/\ db.payments[b].status = "completed"
         /\ first_settings(db).refund_charges_percentage = 0
         /\ \E i \in DOMAIN db.transactions :
               /\ db.transactions[i].payment = b
               /\ db.transactions[i].transaction_type = "razorpay_payment"
               /\ db.transactions[i].booking_amount = 100
               /\ db.transactions[i].commission_amount = 10
               /\ db.transactions[i].net_amount = 90)
        => LET r      == initiate_refund(db, b, NULL, TRUE, today)
               before == db.accounts[Owner(b)]
               after  == r.db.accounts[Owner(b)]
           IN  /\ r.ok
               /\ after.total_commission_deducted = before.total_commission_deducted - 10
               /\ after.current_balance = before.current_balance - 90

\* C9: every due with is_settled = true has settled_via_transaction set to a
\* transaction of its owner that settles dues (a razorpay_payment or a
\* due_settlement), and has actual_payment_date set.
C9_SettledDuesHaveTransaction ==
    \A i \in DOMAIN db.dues :
        db.dues[i].is_settled =>
            /\ db.dues[i].settled_via_transaction \in DOMAIN db.transactions
            /\ LET t == db.transactions[db.dues[i].settled_via_transaction]
               IN  /\ t.owner = db.dues[i].owner
                   /\ t.transaction_type \in {"razorpay_payment", "due_settlement"}
                   /\ t.transaction_type = "due_settlement" => t.booking = db.dues[i].booking
            /\ db.dues[i].actual_payment_date # NULL

\* C9 witness: a due that the auto-settlement of a capture settled.
C9_Witness ==
    \E i \in DOMAIN db.dues :
        /\ db.dues[i].is_settled
        /\ db.dues[i].settled_via_transaction \in DOMAIN db.transactions
        /\ db.transactions[db.dues[i].settled_via_transaction].transaction_type
              = "razorpay_payment"
        /\ last.op = "razorpay"

\* C10: at most one CommissionSettings record exists at any time, and exactly
\* one once a first access has completed.
C10_SingleSettingsRecord ==
    /\ Len(db.settings) <= 1
    /\ (\E p \in SettingsProcs : procs[p].pc = "done") => Len(db.settings) = 1

\* C11: when a statement of process_razorpay_payment raises after the
\* commission transaction was created, the call leaves the database as it was
\* before the call: no transaction, no settled due, no account change and no
\* payment change.
C11_RaisingRollsBack ==
    [][\A b \in 1..(MaxDues + MaxCaptures), i \in DOMAIN RaisingSteps :
          VerifyPaymentRaising(b, RaisingSteps[i]) => db' = db]_vars

\* A capture that would settle a due was attempted, its payment.save raised,
\* and the due is unsettled and the payment still initiated.
C11_Witness ==
    /\ last.op = "payment.save"
    /\ \E order \in DueOrders(db, "o1") :
         AutoSettled(db, first_settings(db), order,
                     calculate_commission(bookings[last.booking].total_price,
                                          first_settings(db)).net_amount) # {}
    /\ db.payments[last.booking].status = "initiated"
    /\ ~db.payments[last.booking].has_commission_applied


\* C12: a second delivery of a capture whose razorpay_payment transaction
\* exists mutates nothing and is reported as processed by both callers: the
\* verification endpoint answers with success and the payment.captured
\* handler skips it.
C12_DuplicateIsSuccess ==
    [][\A b \in 1..MaxBookings :
          Captured(db, b) =>
              /\ VerifyPayment(b, TRUE) => (db' = db /\ last'.ok)
              /\ PaymentCaptured(b) => (db' = db /\ last'.op = "captured_skipped")]_vars

\* C13: settle_cod_manually on a due that is already settled fails, creates
\* no due_settlement transaction and leaves the due and the owner's
\* pending_dues, settled_dues and current_balance as they were.
C13_SettledDueRejected ==
    [][\A i \in DOMAIN db.dues :
          db.dues[i].is_settled =>
              \A c \in CollectedAmounts(db.dues[i]) :
                  SettleCodManually(i, c) =>
                      /\ ~last'.ok
                      /\ db'.transactions = db.transactions
                      /\ db'.dues = db.dues
                      /\ db'.accounts = db.accounts]_vars

\* A manual settlement was attempted on a settled due of an owner with a
\* ledger, and was refused.
C13_Witness ==
    /\ last.op = "settle"
    /\ ~last.ok
    /\ last.booking \in DOMAIN db.dues
    /\ db.dues[last.booking].is_settled
    /\ db.accounts[db.dues[last.booking].owner].settled_dues > 0

\* C14: a manual settlement of an unsettled due with a collected amount below
\* its due_amount leaves the due unsettled and reduces its due_amount by the
\* collected amount.
C14_PartialReducesDue ==
    [][\A i \in DOMAIN db.dues :
          \A c \in CollectedAmounts(db.dues[i]) :
              (~db.dues[i].is_settled /\ c < db.dues[i].due_amount /\ SettleCodManually(i, c)) =>
                  /\ ~db'.dues[i].is_settled
                  /\ db'.dues[i].due_amount = db.dues[i].due_amount - c]_vars

\* The owner's account row, or the column defaults when there is none yet.
AccountOf(d, owner) == IF owner \in DOMAIN d.accounts THEN d.accounts[owner] ELSE NewAccount

\* The gateway call of process_payout is reached for payout i: it is pending
\* and its amount is within the owner's current_balance.
ReachesGateway(d, i) ==
    /\ d.payouts[i].status = "pending"
    /\ d.payouts[i].amount <= d.accounts[d.payouts[i].owner].current_balance

\* C15: when the gateway payout call fails during process_payout, the stored
\* payout request ends in status 'failed' and the owner's current_balance,
\* last_payout_date and last_payout_amount are unchanged.
C15_GatewayFailureMarksFailed ==
    [][\A i \in DOMAIN db.payouts :
          (ReachesGateway(db, i) /\ ProcessPayout(i, FALSE)) =>
              /\ db'.payouts[i].status = "failed"
              /\ db'.accounts = db.accounts]_vars

\* C16: request_payout creates a pending payout request exactly when the
\* owner's account is not blocked and the amount is at most current_balance;
\* otherwise it fails and creates no payout request; in both cases no field of
\* the account changes.
C16_RequestPayoutGuard ==
    [][\A a \in PayoutAmounts :
          RequestPayout("o1", a) =>
              LET account == AccountOf(db, "o1")
                  allowed == ~account.is_blocked /\ a <= account.current_balance
              IN  /\ last'.ok <=> allowed
                  /\ allowed => db'.payouts = Append(db.payouts, NewPayout("o1", a))
                  /\ ~allowed => db'.payouts = db.payouts
                  /\ AccountOf(db', "o1") = account]_vars

\* A payout was requested from a blocked account with enough balance and was
\* refused, after an earlier request had been accepted.
C16_Witness ==
    /\ last.op = "request_payout"
    /\ ~last.ok
    /\ last.was_blocked
    /\ Len(db.payouts) = 1
    /\ db.accounts["o1"].current_balance >= 90

\* Days between the creation of payment b and today (line 356).
DaysElapsed(b) == today - db.payments[b].created_at

\* The refund window initiate_refund reads (get_settings creates the defaults
\* when the table is empty).
RefundDays == first_settings(get_settings(db)).refund_days

RefundExists(d, b) == \E i \in DOMAIN d.refunds : d.refunds[i].payment = b

\* C17: when the gateway refund call fails during initiate_refund for a
\* razorpay payment (not refunded, without a refund, inside the window), the
\* operation fails, a Refund row for the payment is stored with status
\* 'failed', and the payment status and the owner's ledger are unchanged.
C17_GatewayFailureStoresFailedRefund ==
    [][\A b \in DOMAIN db.payments, a \in RefundAmounts :
          (/\ db.payments[b].payment_method = "razorpay"
           /\ db.payments[b].status # "refunded"
           /\ ~RefundExists(db, b)
           /\ DaysElapsed(b) <= RefundDays
           /\ InitiateRefund(b, a, FALSE)) =>
              /\ ~last'.ok
              /\ \E i \in DOMAIN db'.refunds :
                    db'.refunds[i].payment = b /\ db'.refunds[i].status = "failed"
              /\ db'.payments[b].status = db.payments[b].status
              /\ db'.accounts = db.accounts]_vars

C19_RefundRecordsReversal ==
    \A b \in DOMAIN db.payments :
        (/\ db.payments[b].status = "completed"
         /\ db.settings # <<>>
         /\ first_settings(db).refund_charges_percentage = 200
         /\ DaysElapsed(b) <= first_settings(db).refund_days
         /\ \E i \in DOMAIN db.transactions :
               /\ db.transactions[i].payment = b
               /\ db.transactions[i].transaction_type = "razorpay_payment"
               /\ db.transactions[i].commission_amount = 10000
               /\ db.transactions[i].net_amount = 90000)
        => LET r      == initiate_refund(db, b, NULL, TRUE, today)
               before == db.accounts[Owner(b)]
               after  == r.db.accounts[Owner(b)]
           IN  /\ r.ok
               /\ \E i \in DOMAIN r.db.transactions :
                     /\ r.db.transactions[i].payment = b
                     /\ r.db.transactions[i].transaction_type = "reversal"
                     /\ r.db.transactions[i].net_amount = 0 - 98000
                     /\ r.db.transactions[i].commission_amount = 0 - 10889
               /\ after.current_balance = before.current_balance - 98000
               /\ after.total_commission_deducted = before.total_commission_deducted - 10889

\* C20: a booking request for a space whose owner's account is blocked creates
\* no booking, and the owner check answers 'cannot receive payment' exactly
\* when the account is blocked or its pending_dues have reached
\* block_dues_amount (and 'can receive payment' otherwise).
C20_BlockedOwnerRejected ==
    [][\A o \in Owners, p \in Prices :
          BookingCreate(o, p) =>
              LET account == AccountOf(db, o)
                  cannot  == \/ account.is_blocked
                             \/ account.pending_dues >= first_settings(db).block_dues_amount
              IN  /\ account.is_blocked => bookings' = bookings
                  /\ validate_owner(db, o).check =
                        IF cannot THEN "cannot receive payment" ELSE "can receive payment"]_vars

\* C21: a commission transaction with status 'settled' is never rewritten by a
\* later capture, COD acceptance, manual settlement or refund: the row stays
\* as it is and corrections are new rows.
C21_SettledTransactionsImmutable ==
    [][\A i \in DOMAIN db.transactions :
          db.transactions[i].status = "settled" =>
              /\ i \in DOMAIN db'.transactions
              /\ db'.transactions[i] = db.transactions[i]]_vars

\* A manual settlement went through after a capture had been settled: the
\* capture's transaction is an older row than the settlement's.
C21_Witness ==
    /\ last.op = "settle"
    /\ last.ok
    /\ \E i, j \in DOMAIN db.transactions :
          /\ i < j
          /\ db.transactions[i].transaction_type = "razorpay_payment"
          /\ db.transactions[i].status = "settled"
          /\ db.transactions[j].transaction_type = "due_settlement"

\* C22: a COD acceptance that goes through adds one cod_collection transaction
\* with status 'pending' and one unsettled due whose due_amount is the
\* transaction's net_amount and whose expected_payment_date is due_date +
\* due_days_threshold; total_earned grows by the gross amount,
\* total_commission_deducted by the commission, pending_dues by the net amount;
\* the payment is 'pending' with cod_due_amount = net amount; current_balance
\* and settled_dues are unchanged.
C22_CodAcceptanceRecords ==
    [][\A b \in DOMAIN bookings :
          (/\ last'.op = "cod" /\ last'.ok /\ last'.booking = b
           /\ (InitiatePayment(b, "cod", TRUE) \/ ConfirmCodPayment(b))) =>
              LET owner  == bookings[b].owner
                  before == AccountOf(db, owner)
                  after  == db'.accounts[owner]
                  t      == Len(db.transactions) + 1
                  k      == Len(db.dues) + 1
                  trans  == db'.transactions[t]
                  due    == db'.dues[k]
              IN  /\ Len(db'.transactions) = t
                  /\ SubSeq(db'.transactions, 1, t - 1) = db.transactions
                  /\ trans.transaction_type = "cod_collection"
                  /\ trans.status = "pending"
                  /\ trans.payment = b
                  /\ trans.booking_amount = bookings[b].total_price
                  /\ Len(db'.dues) = k
                  /\ SubSeq(db'.dues, 1, k - 1) = db.dues
                  /\ ~due.is_settled
                  /\ due.owner = owner
                  /\ due.due_amount = trans.net_amount
                  /\ due.expected_payment_date =
                        due.due_date + first_settings(db).due_days_threshold
                  /\ after.total_earned = before.total_earned + bookings[b].total_price
                  /\ after.total_commission_deducted =
                        before.total_commission_deducted + trans.commission_amount
                  /\ after.pending_dues = before.pending_dues + trans.net_amount
                  /\ after.current_balance = before.current_balance
                  /\ after.settled_dues = before.settled_dues
                  /\ db'.payments[b].status = "pending"
                  /\ db'.payments[b].cod_due_amount = trans.net_amount]_vars

\* A second COD booking of an owner was accepted: the owner has two dues and
\* pending dues from both.
C22_Witness ==
    /\ last.op = "cod"
    /\ last.ok
    /\ Len(db.dues) = 2
    /\ db.dues[1].owner = db.dues[2].owner
    /\ db.accounts[db.dues[1].owner].pending_dues = db.dues[1].due_amount + db.dues[2].due_amount

\* C23: when settle_cod_manually fails after it created the due_settlement
\* transaction or marked the due settled, nothing of the call remains: no
\* transaction, no change to the due, no change to the owner's account.
C23_ManualSettlementAllOrNothing ==
    [][\A i \in DOMAIN db.dues :
          \A c \in CollectedAmounts(db.dues[i]), k \in DOMAIN SettleRaisingSteps :
              SettleCodManuallyRaising(i, c, SettleRaisingSteps[k]) =>
                  /\ db'.transactions = db.transactions
                  /\ db'.dues = db.dues
                  /\ db'.accounts = db.accounts]_vars

\* C24: a refund of a payment without a commission transaction (the reversal
\* step finds nothing to reverse), requested inside the window with the
\* gateway accepting, completes: a Refund row with status 'processing' is
\* stored, the payment is 'refunded' (full amount) or 'partially_refunded',
\* and the accounts are unchanged.
C24_ReversalBestEffort ==
    \A b \in DOMAIN db.payments : \A a \in RefundAmounts :
        (/\ db.payments[b].status # "refunded"
         /\ ~RefundExists(db, b)
         /\ DaysElapsed(b) <= RefundDays
         /\ \A i \in DOMAIN db.transactions : db.transactions[i].payment # b)
        => LET r == initiate_refund(db, b, a, TRUE, today)
           IN  /\ r.ok
               /\ \E i \in DOMAIN r.db.refunds :
                     r.db.refunds[i].payment = b /\ r.db.refunds[i].status = "processing"
               /\ r.db.payments[b].status =
                     IF a = NULL THEN "refunded" ELSE "partially_refunded"
               /\ r.db.accounts = db.accounts

\* C25: for every owner, pending_dues + settled_dues equals the sum of the
\* due_amount of all dues ever created for the owner, after any sequence of
\* COD acceptances, captures with auto-settlement and manual settlements.
C25_DuesConserved ==
    \A o \in DOMAIN db.accounts :
        db.accounts[o].pending_dues + db.accounts[o].settled_dues =
            SumDue(db, { i \in DOMAIN db.dues : db.dues[i].owner = o })

\* After a partial manual settlement and a capture that auto-settled another
\* due: one due is settled through a capture's transaction, and a
\* due_settlement transaction collected less than its due.
C25_Witness ==
    /\ \E i \in DOMAIN db.dues :
          /\ db.dues[i].is_settled
          /\ db.dues[i].settled_via_transaction # NULL
          /\ db.transactions[db.dues[i].settled_via_transaction].transaction_type
                = "razorpay_payment"
    /\ \E j \in DOMAIN db.transactions :
          /\ db.transactions[j].transaction_type = "due_settlement"
          /\ db.transactions[j].net_amount < db.transactions[j].booking_amount
    /\ last.ok

\* C26: an owner's pending_dues is never negative, after any sequence of COD
\* acceptances, captures and manual settlements, repeated partial settlements
\* of one due included.
C26_PendingDuesNonNegative ==
    \A o \in DOMAIN db.accounts : db.accounts[o].pending_dues >= 0

\* The commission transactions of type cod_collection or razorpay_payment
\* recorded for payment b, and the dues recorded for its booking.
PaymentTransactions(d, b) ==
    { i \in DOMAIN d.transactions :
        /\ d.transactions[i].payment = b
        /\ d.transactions[i].transaction_type \in {"cod_collection", "razorpay_payment"} }

BookingDues(d, b) == { i \in DOMAIN d.dues : d.dues[i].booking = b }

\* C27: every payment has at most one cod_collection or razorpay_payment
\* transaction and at most one due, and a COD acceptance for a payment that
\* already has its transaction fails without adding a transaction or a due and
\* without changing the accounts.
C27_OneTransactionPerPayment ==
    [][/\ \A b \in DOMAIN db'.payments :
             /\ Cardinality(PaymentTransactions(db', b)) <= 1
             /\ Cardinality(BookingDues(db', b)) <= 1
       /\ \A b \in DOMAIN db.payments :
             (/\ last'.op = "cod" /\ last'.booking = b
              /\ PaymentTransactions(db, b) # {}
              /\ ConfirmCodPayment(b)) =>
                 /\ ~last'.ok
                 /\ db'.transactions = db.transactions
                 /\ db'.dues = db.dues
                 /\ db'.accounts = db.accounts]_vars

\* confirm_cod_payment was called for a payment whose COD acceptance had been
\* recorded by initiate_payment, and was refused: the payment has one
\* cod_collection transaction and one due.
C27_Witness ==
    /\ last.op = "cod"
    /\ ~last.ok
    /\ \E i \in PaymentTransactions(db, last.booking) :
          db.transactions[i].transaction_type = "cod_collection"
    /\ Cardinality(BookingDues(db, last.booking)) = 1


\* ------------------------------------------------------------------ concurrent settlements of a due
\* What settle_cod_manually writes (lines 298-326) when the due instance it
\* loaded at line 292 is `due`: due.save() writes every column of that instance
\* over the row, the transaction is inserted and the account, fetched at line
\* 318, is read from the database as it is then.
settle_writes(d, due, due_id, collected_amount, now) ==
    settle_cod_manually([d EXCEPT !.dues[due_id] = due], due_id, collected_amount, now).db

\* Two requests of one owner run side by side: p1 settles a due by hand, p2
\* settles a due by hand or is the capture of a razorpay payment, whose
\* auto-settle loop reads the owner's unsettled dues.
InitRace ==
    /\ \E st \in SettleSettings, h \in CodHistories(SettlePrices, MaxConcDues),
          price \in CapturePrices, capture \in BOOLEAN :
          LET n  == Len(h)
              b1 == [owner |-> "o1", total_price |-> price, status |-> "pending_payment"]
              d0 == CodLedger([EmptyDb EXCEPT !.settings = <<st>>], "o1", h)
              d1 == InitiatedPayment(d0, n + 1, b1, "razorpay", MaxDay)
          IN  /\ db = d1
              /\ bookings = ConfirmedBookings("o1", h) \o <<b1>>
              /\ \E i, j \in DOMAIN d1.dues :
                    procs = [ p \in ConcProcs |->
                                IF p = "p1" THEN [pc |-> "settle", due |-> i]
                                ELSE IF capture
                                     THEN [pc |-> "start", booking |-> n + 1, method |-> "razorpay"]
                                     ELSE [pc |-> "settle", due |-> j] ]
    /\ base = db
    /\ today = MaxDay
    /\ last = NoLast
    /\ calc = NoCalc

\* CommissionDue.objects.get(id=due_id) and the check of lines 292-295: the
\* request holds the due instance it read, or ends with "Due already settled".
ReadDue(p) ==
    /\ procs[p].pc = "settle"
    /\ procs' = [procs EXCEPT ![p] =
                   IF due_is_settled(db, procs[p].due)
                   THEN [pc |-> "done", due |-> procs[p].due, ok |-> FALSE]
                   ELSE [pc |-> "due_loaded", due |-> procs[p].due,
                         instance |-> db.dues[procs[p].due]]]
    /\ UNCHANGED <<db, bookings, today, last, calc, base>>

\* Lines 298-326 of settle_cod_manually for the whole due_amount, by the
\* request that loaded the due.
SettleDue(p) ==
    /\ procs[p].pc = "due_loaded"
    /\ db' = settle_writes(db, procs[p].instance, procs[p].due,
                           procs[p].instance.due_amount, today)
    /\ procs' = [procs EXCEPT ![p] = [pc |-> "done", due |-> procs[p].due, ok |-> TRUE]]
    /\ last' = Handled("settle", procs[p].due, procs[p].instance.owner, TRUE)
    /\ UNCHANGED <<bookings, today, calc, base>>

NextRace ==
    \/ \E p \in ConcProcs : ReadDue(p)
    \/ \E p \in ConcProcs : SettleDue(p)
    \/ \E p \in ConcProcs : ReadAccount(p)
    \/ \E p \in ConcProcs : Commit(p)

SpecRace == InitRace /\ [][NextRace]_vars

\* The dues that were unsettled before the requests and are settled now.
SettledSince(before, d) ==
    { i \in DOMAIN before.dues : ~before.dues[i].is_settled /\ d.dues[i].is_settled }

\* C28: under any interleaving of a manual settlement of a due with a capture
\* that auto-settles or with another manual settlement, the amount of every
\* due settled is subtracted from pending_dues and added to settled_dues once,
\* and a settled due never becomes unsettled again.
C28_DueSettledOnce ==
    /\ []((\A p \in ConcProcs : procs[p].pc = "done") =>
            LET paid == SumDue(db, SettledSince(base, db))
            IN  /\ db.accounts["o1"].pending_dues = base.accounts["o1"].pending_dues - paid
                /\ db.accounts["o1"].settled_dues = base.accounts["o1"].settled_dues + paid)
    /\ [][\A i \in DOMAIN db.dues : db.dues[i].is_settled => db'.dues[i].is_settled]_vars


\* ------------------------------------------------------------------ concurrent payout approvals
\* What process_payout writes (lines 497-528) when the gateway call succeeds,
\* given the payout instance it loaded at line 486 and the account row it
\* fetched at line 492: payout.save() and account.save() write every column of
\* those instances.
payout_writes(d, payout, account_row, payout_id, now) ==
    process_payout([d EXCEPT !.payouts[payout_id] = payout,
                             !.accounts[payout.owner] = account_row],
                   payout_id, TRUE, now).db

\* An owner whose balance comes from one captured payment has requested up to
\* two payouts; two process_payout calls (admin approvals or API calls) run
\* side by side, for the same payout or for two of them.
InitPayoutRace ==
    /\ \E price \in Prices, a1 \in PayoutAmounts, a2 \in PayoutAmounts :
          LET b1 == [owner |-> "o1", total_price |-> price, status |-> "pending_payment"]
              d1 == InitiatedPayment(ConfiguredDb, 1, b1, "razorpay", 1)
              d2 == process_razorpay_payment(d1, 1, b1, RazorpayPaymentId(1), <<>>, 1).db
              d3 == request_payout(d2, "o1", a1).db
              d4 == request_payout(d3, "o1", a2).db
          IN  /\ db = d4
              /\ bookings = <<[b1 EXCEPT !.status = "confirmed"]>>
              /\ \E i, j \in DOMAIN d4.payouts :
                    procs = [ p \in ConcProcs |->
                                [pc |-> "payout", payout |-> IF p = "p1" THEN i ELSE j] ]
    /\ base = db
    /\ today = 1
    /\ last = NoLast
    /\ calc = NoCalc

\* Lines 486-495 of process_payout: the call reads the payout and the account
\* and checks status and balance; no row is locked.
LoadPayout(p) ==
    /\ procs[p].pc = "payout"
    /\ LET i       == procs[p].payout
           payout  == db.payouts[i]
           account == db.accounts[payout.owner]
       IN  procs' = [procs EXCEPT ![p] =
                       IF ReachesGateway(db, i)
                       THEN [pc |-> "payout_loaded", payout |-> i,
                             instance |-> payout, account |-> account]
                       ELSE [pc |-> "done", payout |-> i, ok |-> FALSE]]
    /\ UNCHANGED <<db, bookings, today, last, calc, base>>

\* Lines 497-528 of process_payout and the commit: the gateway call, then the
\* payout and the account are saved; when the gateway raises, the transaction
\* is rolled back.
PayPayout(p, gateway_ok) ==
    /\ procs[p].pc = "payout_loaded"
    /\ LET i == procs[p].payout
       IN  /\ db' = IF gateway_ok
                    THEN payout_writes(db, procs[p].instance, procs[p].account, i, today)
                    ELSE db
           /\ procs' = [procs EXCEPT ![p] = [pc |-> "done", payout |-> i, ok |-> gateway_ok]]
           /\ last' = Handled(IF gateway_ok THEN "process_payout"
                              ELSE "process_payout_gateway_error",
                              i, procs[p].instance.owner, gateway_ok)
    /\ UNCHANGED <<bookings, today, calc, base>>

NextPayoutRace ==
    \/ \E p \in ConcProcs : LoadPayout(p)
    \/ \E p \in ConcProcs, g \in BOOLEAN : PayPayout(p, g)

SpecPayoutRace == InitPayoutRace /\ [][NextPayoutRace]_vars

\* The calls whose gateway payout for payout i succeeded.
GatewayPayouts(i) ==
    { p \in ConcProcs : procs[p].payout = i /\ procs[p].pc = "done" /\ procs[p].ok }

RECURSIVE SumPayouts(_, _)
SumPayouts(d, ids) ==
    IF ids = {} THEN 0
    ELSE LET i == CHOOSE x \in ids : TRUE
         IN  d.payouts[i].amount + SumPayouts(d, ids \ {i})

CompletedPayouts(d) == { i \in DOMAIN d.payouts : d.payouts[i].status = "completed" }

\* C29: under any interleaving of process_payout calls the gateway payout of a
\* payout request succeeds at most once, current_balance is reduced by the
\* amount of a completed payout at most once, the completed payouts of the
\* owner never add up to more than the balance held, and a gateway payout is
\* only made for a payout whose status is 'pending'.
C29_PayoutProcessedOnce ==
    /\ [](/\ \A i \in DOMAIN db.payouts : Cardinality(GatewayPayouts(i)) <= 1
          /\ db.accounts["o1"].current_balance >=
                base.accounts["o1"].current_balance - SumPayouts(db, CompletedPayouts(db))
          /\ SumPayouts(db, CompletedPayouts(db)) <= base.accounts["o1"].current_balance)
    /\ [][\A p \in ConcProcs :
            PayPayout(p, TRUE) => db.payouts[procs[p].payout].status = "pending"]_vars


\* The Refund row stored for payment b.
RefundOf(d, b) == d.refunds[CHOOSE i \in DOMAIN d.refunds : d.refunds[i].payment = b]

====
